---- MODULE Spec2Model ----
(***************************************************************************)
(* Model of process_file (src/viewdataweb.py): the JSON log parser, the    *)
(* daily aggregation of the Voltage-Battery series, the depth of discharge *)
(* / cycle estimation derived from it, and the state of health obtained by *)
(* integrating the Current-Battery series.                                 *)
(*                                                                         *)
(* Units.  Voltages and currents are in tenths (12.6 V = 126, 5 A = 50),   *)
(* the nominal capacity in tenths of an Ah; actual capacity and SOH are    *)
(* exact fractions num / den.  Percentages of the battery tab              *)
(* and cycle counts are in hundredths (3.08 % = 308, 730 cycles = 73000),  *)
(* which is the resolution of the program's round(2).  Timestamps are      *)
(* seconds since the first day of the log.                                 *)
(***************************************************************************)
EXTENDS Integers, Sequences, FiniteSets, TLC

(***************************************************************************)
(* Bounds of the explored inputs.                                          *)
(***************************************************************************)
MaxLogs == 2
MaxValues == 2
MaxReadings == 3
MaxCurrents == 3

VARIABLES
    doc,                \* the uploaded document
    pc,                 \* position in process_file
    outcome,            \* "running", "fatal" (st.error + return), "raised", "done"
    exc,                \* the exception that left process_file, "none" otherwise
    ui,                 \* what was rendered, in order
    logs,               \* data[0].get("Logs", [])
    i,                  \* index of the next log entry of the for loop
    series_data,        \* name -> stored series
    voltage_full_charge,
    daily_stats,
    avg_dod,
    valid_days,
    total_cycles,
    remaining_cycles,
    lifecycle_percent,
    divided,            \* whether line 352 evaluated its division
    nominal_capacity,   \* tenths of an amp-hour
    t1,
    t2,
    integration_df,     \* the windowed Current-Battery rows, sorted
    actual_capacity,    \* a fraction of tenths of an amp-hour
    soh_percent,        \* a fraction of a percent
    soh                 \* "none", "no current", "warning" or "result"

vars == <<doc, pc, outcome, exc, ui, logs, i, series_data, voltage_full_charge,
          daily_stats, avg_dod, valid_days, total_cycles, remaining_cycles,
          lifecycle_percent, divided, nominal_capacity, t1, t2, integration_df,
          actual_capacity, soh_percent, soh>>

parseVars == <<logs, i, series_data>>
batteryVars == <<voltage_full_charge, daily_stats, avg_dod, valid_days,
                 total_cycles, remaining_cycles, lifecycle_percent, divided>>
sohVars == <<nominal_capacity, t1, t2, integration_df, actual_capacity, soh_percent, soh>>

(***************************************************************************)
(* Missing cells of a DataFrame: pandas fills a key that a sample lacks    *)
(* with NaN, and to_datetime turns it into NaT.                            *)
(***************************************************************************)
NaN == -999999
NaT == -888888

SecondsPerHour == 3600
SecondsPerDay == 86400

(***************************************************************************)
(* JSON values.  A raw timestamp string is either a date and time that     *)
(* pandas can parse, written with a UTC offset (z) or without one, or text *)
(* that it cannot parse.  Time is counted in seconds, so the last instant  *)
(* of a day is its last second.                                            *)
(***************************************************************************)
TStrAt(d, h, sec) == [ok |-> TRUE, d |-> d, h |-> h, s |-> sec, z |-> TRUE]
TStr(d, h) == TStrAt(d, h, 0)
NaiveTStr(t) == [t EXCEPT !.z = FALSE]
BadTStr == [ok |-> FALSE, d |-> 0, h |-> 0, s |-> 0, z |-> FALSE]

Sample(hasT, t, hasV, v) == [hasT |-> hasT, T |-> t, hasV |-> hasV, V |-> v]
Entry(hasName, name, hasValues, values) ==
    [hasName |-> hasName, Name |-> name, hasValues |-> hasValues, Values |-> values]

\* kind: "invalid" (not JSON), "null", "number", "string", "object", "list";
\* len: the length of a string or list; first: the first element of a list.
Json(kind, len, first, hasLogs, logsVal) ==
    [kind |-> kind, len |-> len, first |-> first, hasLogs |-> hasLogs, Logs |-> logsVal]
Elem(kind, hasLogs, logsVal) == [kind |-> kind, hasLogs |-> hasLogs, Logs |-> logsVal]
NoElem == Elem("none", FALSE, <<>>)

SeqsUpTo(S, n) == UNION {[1..k -> S] : k \in 0..n}


(***************************************************************************)
(* The documents explored.                                                 *)
(***************************************************************************)
SeriesNames == {"Voltage-Battery", "UpTime"}
Volts == {126, 65, -50}
FullCharges == {130, 120}

OkSample(d, v) == Sample(TRUE, TStr(d, 0), TRUE, v)

\* One sample of each shape the parser distinguishes.
ParseSamples ==
    { OkSample(0, 126),
      Sample(TRUE, BadTStr, TRUE, 128),
      Sample(FALSE, BadTStr, TRUE, 129),
      Sample(TRUE, TStr(1, 0), FALSE, 0),
      Sample(FALSE, BadTStr, FALSE, 0) }

ParseEntries ==
    { Entry(TRUE, n, TRUE, vs) : n \in SeriesNames \cup {""}, vs \in SeqsUpTo(ParseSamples, MaxValues) }
    \cup { Entry(FALSE, "", TRUE, vs) : vs \in SeqsUpTo(ParseSamples, MaxValues) }
    \cup { Entry(TRUE, n, FALSE, <<>>) : n \in SeriesNames }

GoodEntries ==
    { Entry(TRUE, n, TRUE, <<OkSample(0, 126), OkSample(0, 128), OkSample(1, 129)>>) : n \in SeriesNames }

\* Log lists of up to MaxLogs entries: one arbitrary entry among well-formed ones.
LogLists ==
    UNION { { [k \in 1..m |-> IF k = p THEN e ELSE g[k]] :
                 p \in 1..m, e \in ParseEntries, g \in [1..m -> GoodEntries] } :
            m \in 1..MaxLogs }

Instants == {TStr(0, 0), TStr(0, 23), TStr(1, 0)}
Readings == {Sample(TRUE, t, TRUE, v) : t \in Instants, v \in Volts}

\* Well-formed Voltage-Battery logs: a single reading, or a first reading (which
\* the parser drops) followed by 1..MaxReadings readings.
FirstReading == Sample(TRUE, TStr(0, 0), TRUE, 140)
HealthLogs ==
    { <<Entry(TRUE, "Voltage-Battery", TRUE, <<r>>)>> : r \in Readings }
    \cup { <<Entry(TRUE, "Voltage-Battery", TRUE, <<FirstReading>> \o vs)>> :
             vs \in SeqsUpTo(Readings, MaxReadings) \ {<<>>} }

\* Logs with the Voltage-Battery series of two days and a well-formed
\* Current-Battery series: a single reading, or a first reading (which the
\* parser drops) followed by 1..MaxCurrents readings.
CurrentReadings ==
    { Sample(TRUE, TStr(0, 0), TRUE, 50),
      Sample(TRUE, TStr(0, 0), TRUE, -30),
      Sample(TRUE, TStr(0, 1), TRUE, 50),
      Sample(TRUE, TStr(0, 1), TRUE, -30),
      Sample(TRUE, TStrAt(0, 23, 3599), TRUE, 50),
      Sample(TRUE, TStr(1, 0), TRUE, -30) }
FirstCurrent == Sample(TRUE, TStr(0, 0), TRUE, 70)
VoltageEntry ==
    Entry(TRUE, "Voltage-Battery", TRUE, <<OkSample(0, 126), OkSample(0, 128), OkSample(1, 129)>>)
AwareCurrents ==
    { <<r>> : r \in CurrentReadings }
    \cup { <<FirstCurrent>> \o vs : vs \in SeqsUpTo(CurrentReadings, MaxCurrents) \ {<<>>} }
\* readings with every timestamp written without a UTC offset
WithoutOffset(vs) == [k \in 1..Len(vs) |-> [vs[k] EXCEPT !.T = NaiveTStr(vs[k].T)]]
NaiveCurrents ==
    { WithoutOffset(<<r>>) : r \in CurrentReadings }
    \cup { WithoutOffset(<<FirstCurrent, r, s>>) : r \in CurrentReadings, s \in CurrentReadings }
CurrentLogs ==
    { <<VoltageEntry, Entry(TRUE, "Current-Battery", TRUE, vs)>> :
        vs \in AwareCurrents \cup NaiveCurrents }

\* what the user enters in the SOH section
NominalCapacities == {100, 330}
DateChoices == {0, 1}

ListDoc(first) == Json("list", 1, first, FALSE, <<>>)
LogsDoc(ll) == ListDoc(Elem("object", TRUE, ll))

\* Documents that are not a list holding an object with a non-empty "Logs".
StructDocs ==
    { Json(k, 0, NoElem, FALSE, <<>>) : k \in {"invalid", "null", "number", "bool", "string", "object", "list"} }
    \cup { Json("string", 1, NoElem, FALSE, <<>>) }
    \cup { Json("object", 0, NoElem, TRUE, <<g>>) : g \in GoodEntries }
    \cup { ListDoc(Elem(k, FALSE, <<>>)) : k \in {"null", "number", "bool", "string", "list", "object"} }
    \cup { LogsDoc(<<>>) }

Docs == StructDocs \cup {LogsDoc(ll) : ll \in LogLists \cup HealthLogs \cup CurrentLogs}

(***************************************************************************)
(* Python and pandas operations used by the parser.                        *)
(***************************************************************************)
Ok(v) == [exc |-> "none", val |-> v]
Raise(e) == [exc |-> e, val |-> NoElem]

\* json.load: JSONDecodeError on text that is not JSON.
JsonLoad(d) == IF d.kind = "invalid" THEN Raise("JSONDecodeError") ELSE Ok(d)

\* data[0]
Subscript0(d) ==
    CASE d.kind = "list"   -> IF d.len = 0 THEN Raise("IndexError") ELSE Ok(d.first)
      [] d.kind = "string" -> IF d.len = 0 THEN Raise("IndexError")
                                           ELSE Ok(Elem("string", FALSE, <<>>))
      [] d.kind = "object" -> Raise("KeyError")
      [] OTHER             -> Raise("TypeError")

\* x.get("Logs", [])
GetLogs(x) ==
    IF x.kind = "object"
    THEN [exc |-> "none", val |-> IF x.hasLogs THEN x.Logs ELSE <<>>]
    ELSE [exc |-> "AttributeError", val |-> <<>>]

\* data[0].get("Logs", [])
ExtractExpr(d) ==
    LET first == Subscript0(d)
    IN  IF first.exc # "none" THEN [exc |-> first.exc, val |-> <<>>] ELSE GetLogs(first.val)

\* except (IndexError, AttributeError)
CaughtStructure(e) == e \in {"IndexError", "AttributeError"}

\* if not name or not values: continue
SkipEntry(log) ==
    \/ ~log.hasName \/ log.Name = ""
    \/ ~log.hasValues \/ log.Values = <<>>

\* variant: the first sample is kept
DropFirstNever(values) == values
\* if len(values) > 1: values = values[1:]
DropFirst(values) == IF Len(values) > 1 THEN Tail(values) ELSE values

\* series_df.empty or "T" not in series_df.columns or "V" not in series_df.columns
MissingColumns(values) ==
    \/ values = <<>>
    \/ \A k \in 1..Len(values) : ~values[k].hasT
    \/ \A k \in 1..Len(values) : ~values[k].hasV

\* pd.to_datetime on one cell and on the whole column (errors="raise")
ToDatetime(s) ==
    IF ~s.hasT THEN NaT ELSE s.T.d * SecondsPerDay + s.T.h * SecondsPerHour + s.T.s
ToDatetimeRaises(values) == \E k \in 1..Len(values) : values[k].hasT /\ ~values[k].T.ok

\* Aware: the parsed timestamp carries a timezone
Row(s) == [Timestamp |-> ToDatetime(s), Value |-> IF s.hasV THEN s.V ELSE NaN,
           Aware |-> s.hasT /\ s.T.z]
MakeSeries(values) == [k \in 1..Len(values) |-> Row(values[k])]

Store(sd, name, df) == [n \in DOMAIN sd \cup {name} |-> IF n = name THEN df ELSE sd[n]]
EmptyDict == [n \in {} |-> <<>>]

(***************************************************************************)
(* process_file, lines 31-85: load, extract the logs, build series_data.   *)
(***************************************************************************)
Init ==
    /\ doc \in Docs
    /\ pc = "tabs"
    /\ outcome = "running"
    /\ exc = "none"
    /\ ui = <<>>
    /\ logs = <<>>
    /\ i = 1
    /\ series_data = EmptyDict
    /\ voltage_full_charge = 0
    /\ daily_stats = <<>>
    /\ avg_dod = 0
    /\ valid_days = 0
    /\ total_cycles = 0
    /\ remaining_cycles = 0
    /\ lifecycle_percent = 0
    /\ divided = FALSE
    /\ nominal_capacity = 0
    /\ t1 = 0
    /\ t2 = 0
    /\ integration_df = <<>>
    /\ actual_capacity = [num |-> 0, den |-> 1]
    /\ soh_percent = [num |-> 0, den |-> 1]
    /\ soh = "none"

\* variant: st.error(msg) with the return forgotten
ErrorFallThrough(msg, next) ==
    /\ ui' = Append(ui, "error: " \o msg)
    /\ pc' = next
    /\ UNCHANGED <<outcome, exc>>

\* st.error(msg); return (next is the statement after the return, never reached)
ErrorReturn(msg, next) ==
    /\ ui' = Append(ui, "error: " \o msg)
    /\ pc' = "end"
    /\ outcome' = "fatal"
    /\ UNCHANGED exc

\* an exception no handler of process_file catches
Propagate(e) ==
    /\ pc' = "end"
    /\ outcome' = "raised"
    /\ exc' = e
    /\ UNCHANGED ui

\* lines 32-41: the two (still empty) tabs, then json.load
CreateTabs ==
    /\ pc = "tabs"
    /\ ui' = Append(ui, "tabs")
    /\ pc' = "load"
    /\ UNCHANGED <<sohVars, doc, outcome, exc, parseVars, batteryVars>>

LoadJson ==
    /\ pc = "load"
    /\ IF JsonLoad(doc).exc = "JSONDecodeError"
       THEN ErrorReturn("not a valid JSON file", "extract")
       ELSE /\ pc' = "extract"
            /\ UNCHANGED <<outcome, exc, ui>>
    /\ UNCHANGED <<sohVars, doc, parseVars, batteryVars>>

ExtractLogs ==
    /\ pc = "extract"
    /\ LET r == ExtractExpr(doc)
       IN  IF r.exc = "none"
           THEN IF r.val = <<>>
                THEN /\ ErrorReturn("no logs found", "loop")
                     /\ logs' = r.val
                ELSE /\ logs' = r.val
                     /\ pc' = "loop"
                     /\ UNCHANGED <<outcome, exc, ui>>
           ELSE /\ IF CaughtStructure(r.exc)
                   THEN ErrorReturn("invalid JSON structure", "loop")
                   ELSE Propagate(r.exc)
                /\ UNCHANGED logs
    /\ UNCHANGED <<sohVars, doc, i, series_data, batteryVars>>

\* one iteration of "for log in logs"
ProcessLog ==
    /\ pc = "loop"
    /\ i <= Len(logs)
    /\ LET log == logs[i]
           values == DropFirst(log.Values)
       IN  IF SkipEntry(log) \/ MissingColumns(values)
           THEN /\ i' = i + 1
                /\ UNCHANGED <<pc, outcome, exc, ui, series_data>>
           ELSE IF ToDatetimeRaises(values)
                THEN /\ Propagate("ValueError")
                     /\ UNCHANGED <<i, series_data>>
                ELSE /\ series_data' = Store(series_data, log.Name, MakeSeries(values))
                     /\ i' = i + 1
                     /\ UNCHANGED <<pc, outcome, exc, ui>>
    /\ UNCHANGED <<sohVars, doc, logs, batteryVars>>

\* if not series_data: st.error(...); return
CheckSeries ==
    /\ pc = "loop"
    /\ i > Len(logs)
    /\ IF DOMAIN series_data = {}
       THEN ErrorReturn("no valid data series found", "viewer")
       ELSE /\ pc' = "viewer"
            /\ UNCHANGED <<outcome, exc, ui>>
    /\ UNCHANGED <<sohVars, doc, parseVars, batteryVars>>

(***************************************************************************)
(* Lines 94-160: the data visualization tab.                               *)
(***************************************************************************)
ViewerTab ==
    /\ pc = "viewer"
    /\ \E show_uptime \in BOOLEAN :
         ui' = ui \o <<"chart: voltage", "chart: current">>
                  \o (IF show_uptime /\ "UpTime" \in DOMAIN series_data
                      THEN <<"chart: uptime">> ELSE <<>>)
                  \o <<"raw data">>
    /\ pc' = "battery"
    /\ UNCHANGED <<sohVars, doc, outcome, exc, parseVars, batteryVars>>

(***************************************************************************)
(* Arithmetic of the battery analysis.                                     *)
(***************************************************************************)
CycleSlope == 9
CycleIntercept == 1180
Hundredths == 100

\* n / d rounded to the nearest integer, ties to even (d > 0)
RoundDiv(n, d) ==
    LET q == n \div d
        r == n % d
    IN  IF 2 * r < d THEN q
        ELSE IF 2 * r > d THEN q + 1
        ELSE IF q % 2 = 0 THEN q ELSE q + 1

\* Python's max(0, x): x only when x > 0, which NaN never is
PyMax0(x) == IF x # NaN /\ x > 0 THEN x ELSE 0

RECURSIVE SortedSeq(_)
SortedSeq(S) ==
    IF S = {} THEN <<>>
    ELSE LET m == CHOOSE x \in S : \A y \in S : x <= y
         IN  <<m>> \o SortedSeq(S \ {m})

RECURSIVE SumSeq(_)
SumSeq(q) == IF q = <<>> THEN 0 ELSE Head(q) + SumSeq(Tail(q))

MinOf(S) == CHOOSE x \in S : \A y \in S : x <= y
MaxOf(S) == CHOOSE x \in S : \A y \in S : x >= y

\* df["Timestamp"].dt.date
DateOf(ts) == ts \div SecondsPerDay

\* the values of a column that are not missing, in row order
RECURSIVE DropNaN(_)
DropNaN(q) ==
    IF q = <<>> THEN <<>>
    ELSE IF Head(q) = NaN THEN DropNaN(Tail(q)) ELSE <<Head(q)>> \o DropNaN(Tail(q))

\* the Voltage-Battery cells of the rows of one date, in row order
RECURSIVE CellsOn(_, _)
CellsOn(df, date) ==
    IF df = <<>> THEN <<>>
    ELSE IF Head(df).Timestamp # NaT /\ DateOf(Head(df).Timestamp) = date
         THEN <<Head(df).Value>> \o CellsOn(Tail(df), date)
         ELSE CellsOn(Tail(df), date)

\* the dates of a frame in order of first appearance
RECURSIVE DatesAsSeen(_, _)
DatesAsSeen(df, seen) ==
    IF df = <<>> THEN <<>>
    ELSE LET t == Head(df).Timestamp
         IN  IF t = NaT \/ DateOf(t) \in seen
             THEN DatesAsSeen(Tail(df), seen)
             ELSE <<DateOf(t)>> \o DatesAsSeen(Tail(df), seen \cup {DateOf(t)})

\* variant: groupby("Date", sort=False)
GroupKeysUnsorted(df) == DatesAsSeen(df, {})
\* groupby("Date"): the sorted group keys; rows without a timestamp belong to no group
GroupKeys(df) ==
    SortedSeq({DateOf(df[k].Timestamp) : k \in {j \in 1..Len(df) : df[j].Timestamp # NaT}})

\* .agg(["min", "max", "mean"]) of one group; missing cells are skipped
Aggregate(cells) ==
    LET v == DropNaN(cells)
        S == {v[k] : k \in 1..Len(v)}
    IN  IF v = <<>>
        THEN [Min |-> NaN, Max |-> NaN, Mean |-> [sum |-> 0, count |-> 0]]
        ELSE [Min |-> MinOf(S), Max |-> MaxOf(S),
              Mean |-> [sum |-> SumSeq(v), count |-> Len(v)]]

DailyRow(df, date) ==
    LET a == Aggregate(CellsOn(df, date))
    IN  [Date |-> date, Min |-> a.Min, Max |-> a.Max, Mean |-> a.Mean, DoD |-> NaN]

\* lines 173-184
DailyTable(df) ==
    LET keys == GroupKeys(df)
    IN  [k \in 1..Len(keys) |-> DailyRow(df, keys[k])]

\* variant: the DoD floored at 0
DoDFloored(full, row) ==
    IF row.Min = NaN THEN NaN
    ELSE LET d == RoundDiv((full - row.Min) * 100 * Hundredths, full)
         IN  IF d < 0 THEN 0 ELSE d
\* variant: the DoD taken from the daily maximum
DoDFromMax(full, row) ==
    IF row.Max = NaN THEN NaN ELSE RoundDiv((full - row.Max) * 100 * Hundredths, full)
\* line 187: ((full - min) / full * 100).round(2), in hundredths of a percent
DoDOf(full, row) ==
    IF row.Min = NaN THEN NaN ELSE RoundDiv((full - row.Min) * 100 * Hundredths, full)

\* line 190: daily_stats["DoD (%)"].mean().round(2)
AvgDoD(table) ==
    LET v == DropNaN([k \in 1..Len(table) |-> table[k].DoD])
    IN  IF v = <<>> THEN NaN ELSE RoundDiv(SumSeq(v), Len(v))

\* line 197
LinearCycles(avg) == IF avg = NaN THEN NaN ELSE CycleIntercept * Hundredths - CycleSlope * avg

\* variant: the days with data are not subtracted
RawRemainingNoDays(total, days) == total
\* line 198
RawRemaining(total, days) == IF total = NaN THEN NaN ELSE total - days * Hundredths

\* variant: no floor at 0
ClampNone(x) == x
\* lines 201-202: max(0, x.round(2))
Clamp(x) == PyMax0(x)

\* variant: the division of line 352 without its guard
LifecycleUnguarded(remaining, total) ==
    [divided |-> TRUE,
     value |-> IF total = 0 THEN NaN ELSE RoundDiv(remaining * 100 * Hundredths, total)]
\* line 352
Lifecycle(remaining, total) ==
    IF total > 0
    THEN [divided |-> TRUE, value |-> RoundDiv(remaining * 100 * Hundredths, total)]
    ELSE [divided |-> FALSE, value |-> 0]

(***************************************************************************)
(* Lines 162-374: the battery analysis tab.                                *)
(***************************************************************************)
\* lines 163-169
BatteryTab ==
    /\ pc = "battery"
    /\ ui' = Append(ui, "header: battery analysis")
    /\ IF "Voltage-Battery" \in DOMAIN series_data
       THEN /\ \E full \in FullCharges : voltage_full_charge' = full
            /\ pc' = "daily"
            /\ UNCHANGED outcome
       ELSE /\ pc' = "end"
            /\ outcome' = "done"
            /\ UNCHANGED voltage_full_charge
    /\ UNCHANGED <<sohVars, doc, exc, parseVars, daily_stats, avg_dod, valid_days,
                   total_cycles, remaining_cycles, lifecycle_percent, divided>>

\* lines 172-193
DailyStats ==
    /\ pc = "daily"
    /\ LET table == DailyTable(series_data["Voltage-Battery"])
           withDoD == [k \in 1..Len(table) |->
                          [table[k] EXCEPT !.DoD = DoDOf(voltage_full_charge, table[k])]]
       IN  /\ daily_stats' = withDoD
           /\ avg_dod' = AvgDoD(withDoD)
           /\ valid_days' = Len(withDoD)
    /\ pc' = "cycles"
    /\ UNCHANGED <<sohVars, doc, outcome, exc, ui, parseVars, voltage_full_charge,
                   total_cycles, remaining_cycles, lifecycle_percent, divided>>

\* lines 195-202; the values are already multiples of 0.01, which round(2) keeps
Cycles ==
    /\ pc = "cycles"
    /\ LET total == LinearCycles(avg_dod)
           remaining == RawRemaining(total, valid_days)
       IN  /\ total_cycles' = Clamp(total)
           /\ remaining_cycles' = Clamp(remaining)
    /\ pc' = "report"
    /\ UNCHANGED <<sohVars, doc, outcome, exc, ui, parseVars, voltage_full_charge, daily_stats,
                   avg_dod, valid_days, lifecycle_percent, divided>>

\* lines 204-374: gauges, key statistics, cycle information, lifecycle, daily table
Report ==
    /\ pc = "report"
    /\ LET l == Lifecycle(remaining_cycles, total_cycles)
       IN  /\ lifecycle_percent' = l.value
           /\ divided' = l.divided
    /\ ui' = ui \o <<"gauge: average DoD", "key statistics", "gauge: total cycles",
                     "gauge: remaining cycles", "cycle information",
                     "lifecycle remaining", "table: daily statistics", "chart: daily DoD">>
    /\ pc' = "soh"
    /\ UNCHANGED <<sohVars, doc, outcome, exc, parseVars, voltage_full_charge, daily_stats,
                   avg_dod, valid_days, total_cycles, remaining_cycles>>

(***************************************************************************)
(* Lines 478-567: state of health by coulomb counting.                     *)
(***************************************************************************)
\* datetime.combine(date, datetime.min.time()) and (date, datetime.max.time())
StartOfDay(date) == date * SecondsPerDay
EndOfDay(date) == date * SecondsPerDay + SecondsPerDay - 1

\* line 512: (Timestamp >= t1) & (Timestamp <= t2); a missing timestamp compares false
InWindow(row, from, to) ==
    /\ row.Timestamp # NaT
    /\ row.Timestamp >= from
    /\ row.Timestamp <= to

\* line 513: current_battery_df.loc[mask]
RECURSIVE Window(_, _, _)
Window(df, from, to) ==
    IF df = <<>> THEN <<>>
    ELSE IF InWindow(Head(df), from, to)
         THEN <<Head(df)>> \o Window(Tail(df), from, to)
         ELSE Window(Tail(df), from, to)

IndexPermutations(n) == {p \in [1..n -> 1..n] : \A a, b \in 1..n : p[a] = p[b] => a = b}
Permute(df, p) == [k \in 1..Len(df) |-> df[p[k]]]

\* line 518: sort_values(by="Timestamp"); the default sort is not stable, so rows
\* of equal timestamp come out in any order
SortedOrders(df) ==
    { q \in {Permute(df, p) : p \in IndexPermutations(Len(df))} :
        \A k \in 1..(Len(q) - 1) : q[k].Timestamp <= q[k + 1].Timestamp }

\* line 519: Timestamp.diff().dt.total_seconds().fillna(0), in seconds; the
\* division by 3600 is the denominator of actual_capacity
TimeDiff(q, k) == IF k = 1 THEN 0 ELSE q[k].Timestamp - q[k - 1].Timestamp

\* line 520: Current-Battery * Time_diff
Capacity(q) ==
    [k \in 1..Len(q) |-> IF q[k].Value = NaN THEN NaN ELSE q[k].Value * TimeDiff(q, k)]

\* line 522: abs(Capacity.sum())
ActualCapacity(q) ==
    LET total == SumSeq(DropNaN(Capacity(q)))
    IN  [num |-> IF total < 0 THEN -total ELSE total, den |-> SecondsPerHour]

\* line 523: actual_capacity / nominal_capacity * 100
SohPercent(actual, nominal) == [num |-> actual.num * 100, den |-> actual.den * nominal]

\* line 512: a column of timestamps without timezone cannot be ordered
\* against the timezone-aware t1 and t2 (TypeError)
TzNaive(df) == \E k \in 1..Len(df) : df[k].Timestamp # NaT /\ ~df[k].Aware

SohSection ==
    /\ pc = "soh"
    /\ IF "Current-Battery" \in DOMAIN series_data
       THEN \E nominal \in NominalCapacities, t1_date \in DateChoices, t2_date \in DateChoices :
              LET from == StartOfDay(t1_date)
                  to == EndOfDay(t2_date)
                  selected == Window(series_data["Current-Battery"], from, to)
              IN  /\ nominal_capacity' = nominal
                  /\ t1' = from
                  /\ t2' = to
                  /\ IF TzNaive(series_data["Current-Battery"])
                     THEN /\ ui' = Append(ui, "subheader: SOH")
                          /\ soh' = "raised"
                          /\ outcome' = "raised"
                          /\ exc' = "TypeError"
                          /\ UNCHANGED <<integration_df, actual_capacity, soh_percent>>
                     ELSE IF selected = <<>>
                     THEN /\ ui' = ui \o <<"subheader: SOH", "warning: no Current-Battery data in range">>
                          /\ soh' = "warning"
                          /\ outcome' = "done"
                          /\ UNCHANGED <<exc, integration_df, actual_capacity, soh_percent>>
                     ELSE \E q \in SortedOrders(selected) :
                            /\ integration_df' = q
                            /\ actual_capacity' = ActualCapacity(q)
                            /\ soh_percent' = SohPercent(ActualCapacity(q), nominal)
                            /\ soh' = "result"
                            /\ ui' = ui \o <<"subheader: SOH", "metric: SOH", "gauge: SOH",
                                             "SOH explanation">>
                            /\ outcome' = "done"
                            /\ UNCHANGED exc
       ELSE \* the inputs are entered but never read
            /\ ui' = ui \o <<"subheader: SOH", "error: Current-Battery data not found">>
            /\ soh' = "no current"
            /\ outcome' = "done"
            /\ UNCHANGED <<exc, nominal_capacity, t1, t2, integration_df, actual_capacity, soh_percent>>
    /\ pc' = "end"
    /\ UNCHANGED <<doc, parseVars, batteryVars>>

Next ==
    \/ CreateTabs
    \/ LoadJson
    \/ ExtractLogs
    \/ ProcessLog
    \/ CheckSeries
    \/ ViewerTab
    \/ BatteryTab
    \/ DailyStats
    \/ Cycles
    \/ Report
    \/ SohSection

Spec == Init /\ [][Next]_vars

(***************************************************************************)
(* Vocabulary of the properties.                                           *)
(***************************************************************************)
\* the samples of a log entry that the drop-first policy keeps
KeptSamples(e) ==
    IF Len(e.Values) > 1 THEN SubSeq(e.Values, 2, Len(e.Values)) ELSE e.Values

\* a log entry with a name, values, both fields and only parseable timestamps
WellFormedEntry(e) ==
    /\ e.hasName /\ e.Name # ""
    /\ e.hasValues /\ Len(e.Values) >= 1
    /\ \E k \in 1..Len(KeptSamples(e)) : KeptSamples(e)[k].hasT
    /\ \E k \in 1..Len(KeptSamples(e)) : KeptSamples(e)[k].hasV
    /\ \A k \in 1..Len(KeptSamples(e)) : KeptSamples(e)[k].hasT => KeptSamples(e)[k].T.ok

\* the entries the for loop has gone through
Processed == 1..(i - 1)
LoopFinished == logs # <<>> /\ i > Len(logs)

FatalMessages ==
    { "error: not a valid JSON file", "error: no logs found",
      "error: invalid JSON structure", "error: no valid data series found" }
ReportItems ==
    { "chart: voltage", "chart: current", "chart: uptime", "raw data",
      "header: battery analysis", "gauge: average DoD", "key statistics",
      "gauge: total cycles", "gauge: remaining cycles", "cycle information",
      "lifecycle remaining", "table: daily statistics", "chart: daily DoD",
      "subheader: SOH", "warning: no Current-Battery data in range", "metric: SOH",
      "gauge: SOH", "SOH explanation", "error: Current-Battery data not found" }

StatsDone == pc \in {"cycles", "report", "soh"} \/ (pc = "end" /\ "lifecycle remaining" \in {ui[k] : k \in 1..Len(ui)})
CyclesDone == pc \in {"report", "soh"} \/ (pc = "end" /\ "lifecycle remaining" \in {ui[k] : k \in 1..Len(ui)})
ReportDone == pc \in {"soh", "end"} /\ "lifecycle remaining" \in {ui[k] : k \in 1..Len(ui)}

Abs(x) == IF x < 0 THEN -x ELSE x
\* q is n / d rounded to the nearest integer (d > 0)
Nearest(q, n, d) == 2 * Abs(q * d - n) <= d

(***************************************************************************)
(* The keys of series_data are, at every point of the loop, the names of   *)
(* the well-formed entries among those processed so far.                   *)
(***************************************************************************)
KeysOfProcessedEntries ==
    DOMAIN series_data = {logs[k].Name : k \in {j \in Processed : WellFormedEntry(logs[j])}}

(***************************************************************************)
(* C1: for a document with a non-empty "Logs" list, once process_file has  *)
(* left its loop the keys of series_data are exactly the names of the      *)
(* well-formed entries (non-empty Name, non-empty Values, a T and a V      *)
(* field among the kept samples, parseable timestamps), and no other       *)
(* entry is a key.                                                         *)
(***************************************************************************)
C1_KeysAreWellFormedNames ==
    (logs # <<>> /\ pc \notin {"tabs", "load", "extract", "loop"})
        => DOMAIN series_data
             = {logs[k].Name : k \in {j \in 1..Len(logs) : WellFormedEntry(logs[j])}}

(***************************************************************************)
(* C2: a valid JSON document that is not a non-empty list whose first      *)
(* element is an object with a "Logs" field ends in the reported-and-      *)
(* returned outcome, never in an exception leaving process_file.           *)
(***************************************************************************)
ExpectedShape ==
    doc.kind = "list" /\ doc.len > 0 /\ doc.first.kind = "object" /\ doc.first.hasLogs

C2_BadStructureIsRecovered ==
    (doc.kind # "invalid" /\ ~ExpectedShape /\ pc = "end")
        => (outcome = "fatal" /\ exc = "none")

(***************************************************************************)
(* C3: a sample whose T cannot be parsed never ends the run: the exception *)
(* does not leave process_file, and once the loop is over every other      *)
(* well-formed entry is in series_data.                                    *)
(***************************************************************************)
HasUnparseableSample(e) ==
    \E k \in 1..Len(KeptSamples(e)) : KeptSamples(e)[k].hasT /\ ~KeptSamples(e)[k].T.ok

C3_MalformedSampleIsAbsorbed ==
    (\E k \in 1..Len(logs) : HasUnparseableSample(logs[k]))
        => /\ outcome # "raised"
           /\ pc = "end" =>
                \A k \in 1..Len(logs) : WellFormedEntry(logs[k]) => logs[k].Name \in DOMAIN series_data

(***************************************************************************)
(* C4: a run that reports one of the fatal parse errors has reported       *)
(* exactly that one thing, has returned, and has produced no series, no    *)
(* chart, no daily statistics and no DoD, cycle or lifecycle figure.       *)
(***************************************************************************)
C4_FatalErrorIsTheOnlyOutput ==
    (\E k \in 1..Len(ui) : ui[k] \in FatalMessages)
        => /\ Cardinality({k \in 1..Len(ui) : ui[k] \in FatalMessages}) = 1
           /\ ui[Len(ui)] \in FatalMessages
           /\ \A k \in 1..Len(ui) : ui[k] \notin ReportItems
           /\ pc = "end" /\ outcome = "fatal" /\ exc = "none"
           /\ series_data = EmptyDict
           /\ daily_stats = <<>>
           /\ <<voltage_full_charge, avg_dod, valid_days, total_cycles,
                remaining_cycles, lifecycle_percent>> = <<0, 0, 0, 0, 0, 0>>
           /\ ~divided
           /\ soh = "none"

C4_Witness ==
    /\ ui = <<"tabs", "error: no valid data series found">>
    /\ outcome = "fatal"
    /\ LoopFinished

(***************************************************************************)
(* C5: every stored series has at least one sample; it holds the raw       *)
(* Values of the entry it was built from without the first one, in order,  *)
(* when there are several, and the single raw sample when there is one.    *)
(***************************************************************************)
\* the entry a stored series comes from: the last processed well-formed one
\* of that name (the last processed one of that name, should none be well-formed)
SourceOf(n) ==
    LET named == {k \in Processed : logs[k].hasName /\ logs[k].Name = n}
        wf == {k \in named : WellFormedEntry(logs[k])}
        ks == IF wf # {} THEN wf ELSE named
    IN  logs[CHOOSE k \in ks : \A j \in ks : j <= k]

C5_SeriesDropOnlyOneOfSeveral ==
    \A n \in DOMAIN series_data :
        LET raw == SourceOf(n).Values
            s == series_data[n]
        IN  /\ Len(s) >= 1
            /\ Len(raw) > 1 =>
                 /\ Len(s) = Len(raw) - 1
                 /\ \A k \in 1..Len(s) : s[k] = Row(raw[k + 1])
            /\ Len(raw) = 1 => s = <<Row(raw[1])>>

C5_Witness ==
    /\ LoopFinished
    /\ \E n, m \in DOMAIN series_data :
         /\ Len(SourceOf(n).Values) = 1 /\ Len(series_data[n]) = 1
         /\ Len(SourceOf(m).Values) = 3 /\ Len(series_data[m]) = 2

(***************************************************************************)
(* Vocabulary of the battery analysis properties.                          *)
(***************************************************************************)
VoltageSeries == series_data["Voltage-Battery"]

\* the rows of the Voltage-Battery series that are samples of a date: they
\* carry a timestamp of that date and a value
SamplesOn(date) ==
    {k \in 1..Len(VoltageSeries) :
        /\ VoltageSeries[k].Timestamp # NaT
        /\ VoltageSeries[k].Timestamp \div 86400 = date
        /\ VoltageSeries[k].Value # NaN}

RECURSIVE SumOver(_, _)
SumOver(f, K) ==
    IF K = {} THEN 0
    ELSE LET k == CHOOSE x \in K : TRUE IN f[k] + SumOver(f, K \ {k})

VoltageAt == [k \in 1..Len(VoltageSeries) |-> VoltageSeries[k].Value]
DoDAt == [k \in 1..Len(daily_stats) |-> daily_stats[k].DoD]
NumericDoDRows == {k \in 1..Len(daily_stats) : daily_stats[k].DoD # NaN}

(***************************************************************************)
(* C6: the daily statistics table has one row for each calendar date that  *)
(* occurs among the timestamps of the Voltage-Battery series and no other  *)
(* row, in strictly ascending date order; the min, max and mean of a row   *)
(* are those of the samples of its date, so min <= mean <= max, and equal  *)
(* the sample's value when the date has a single sample.                   *)
(***************************************************************************)
C6_DailyRowsPerDateAscending ==
    StatsDone =>
        /\ {daily_stats[k].Date : k \in 1..Len(daily_stats)}
             = {VoltageSeries[k].Timestamp \div 86400 :
                  k \in {j \in 1..Len(VoltageSeries) : VoltageSeries[j].Timestamp # NaT}}
        /\ \A k \in 1..(Len(daily_stats) - 1) : daily_stats[k].Date < daily_stats[k + 1].Date
        /\ \A k \in 1..Len(daily_stats) :
             LET row == daily_stats[k]
                 K == SamplesOn(row.Date)
             IN  K # {} =>
                   /\ \E j \in K : row.Min = VoltageAt[j]
                   /\ \A j \in K : row.Min <= VoltageAt[j]
                   /\ \E j \in K : row.Max = VoltageAt[j]
                   /\ \A j \in K : row.Max >= VoltageAt[j]
                   /\ row.Mean = [sum |-> SumOver(VoltageAt, K), count |-> Cardinality(K)]
                   /\ row.Min * row.Mean.count <= row.Mean.sum
                   /\ row.Mean.sum <= row.Max * row.Mean.count
                   /\ Cardinality(K) = 1 =>
                        \A j \in K : /\ row.Min = VoltageAt[j]
                                     /\ row.Max = VoltageAt[j]
                                     /\ row.Mean = [sum |-> VoltageAt[j], count |-> 1]

\* samples given out of date order, two of them on one date with different values
C6_Witness ==
    /\ StatsDone
    /\ Len(daily_stats) = 2
    /\ \E j, k \in 1..Len(VoltageSeries) :
         j < k /\ VoltageSeries[j].Timestamp > VoltageSeries[k].Timestamp
    /\ \E k \in 1..Len(daily_stats) :
         daily_stats[k].Min < daily_stats[k].Max

(***************************************************************************)
(* C7: the DoD of a daily row is (full - Min) / full * 100 rounded to two  *)
(* decimals, from the row's own minimum and the full-charge voltage that   *)
(* was entered (13.0 V and 12.6 V give 3.08), and avg_dod is the mean of   *)
(* the daily DoD values rounded to two decimals.                           *)
(***************************************************************************)
C7_DoDFromRowMinimum ==
    StatsDone =>
        /\ \A k \in 1..Len(daily_stats) :
             LET row == daily_stats[k]
             IN  row.Min # NaN =>
                   /\ Nearest(row.DoD, (voltage_full_charge - row.Min) * 10000, voltage_full_charge)
                   /\ (voltage_full_charge = 130 /\ row.Min = 126) => row.DoD = 308
        /\ NumericDoDRows # {} =>
             Nearest(avg_dod, SumOver(DoDAt, NumericDoDRows), Cardinality(NumericDoDRows))

C7_Witness ==
    /\ StatsDone
    /\ voltage_full_charge = 130
    /\ Len(daily_stats) = 2
    /\ daily_stats[1].Min = 126 /\ daily_stats[1].Max = 126 + 0 /\ daily_stats[1].DoD = 308
    /\ daily_stats[2].Min < daily_stats[2].Max
    /\ avg_dod # daily_stats[1].DoD

(***************************************************************************)
(* C8: total_cycles is max(0, round(-9 * avg_dod + 1180, 2)); an average   *)
(* DoD of 50 gives 730, and the total is 0 exactly when the linear value   *)
(* is not positive.                                                        *)
(***************************************************************************)
C8_LinearTotalCycles ==
    (CyclesDone /\ avg_dod # NaN) =>
        /\ total_cycles = (IF 118000 - 9 * avg_dod > 0 THEN 118000 - 9 * avg_dod ELSE 0)
        /\ avg_dod = 5000 => total_cycles = 73000
        /\ total_cycles = 0 <=> 118000 - 9 * avg_dod <= 0

C8_Witness ==
    /\ CyclesDone
    /\ avg_dod = 5000
    /\ total_cycles = 73000

(***************************************************************************)
(* C9: remaining_cycles is max(0, total_cycles - days) for the reported    *)
(* total and the number of rows of the daily table, which is the number of *)
(* distinct dates with Voltage-Battery data, also when the linear value    *)
(* is negative.                                                            *)
(***************************************************************************)
C9_RemainingFromReportedTotal ==
    (CyclesDone /\ avg_dod # NaN) =>
        /\ valid_days = Len(daily_stats)
        /\ valid_days = Cardinality({VoltageSeries[k].Timestamp \div 86400 :
                           k \in {j \in 1..Len(VoltageSeries) : VoltageSeries[j].Timestamp # NaT}})
        /\ remaining_cycles =
             (IF total_cycles - valid_days * 100 > 0 THEN total_cycles - valid_days * 100 ELSE 0)

\* a negative linear value
C9_Witness ==
    /\ CyclesDone
    /\ avg_dod # NaN
    /\ 118000 - 9 * avg_dod < 0
    /\ valid_days = 2
    /\ remaining_cycles = 0

(***************************************************************************)
(* C10: total_cycles and remaining_cycles are never negative; when the     *)
(* total is 0 the lifecycle percentage is 0 and no division is evaluated,  *)
(* otherwise it is remaining / total * 100 rounded to two decimals.        *)
(***************************************************************************)
C10_NonNegativeAndGuardedLifecycle ==
    /\ total_cycles >= 0
    /\ remaining_cycles >= 0
    /\ ReportDone =>
         /\ total_cycles = 0 => (lifecycle_percent = 0 /\ ~divided)
         /\ total_cycles > 0 => Nearest(lifecycle_percent, remaining_cycles * 10000, total_cycles)

C10_Witness ==
    /\ ReportDone
    /\ 118000 - 9 * avg_dod < 0
    /\ total_cycles = 0
    /\ lifecycle_percent = 0

(***************************************************************************)
(* C11 as stated: the DoD of a daily row never exceeds 100 and is never    *)
(* floored at 0.                                                           *)
(***************************************************************************)
C11_DoDAtMost100NeverFloored ==
    StatsDone =>
        \A k \in 1..Len(daily_stats) :
            LET row == daily_stats[k]
            IN  row.Min # NaN =>
                  /\ row.DoD <= 10000
                  /\ row.Min > voltage_full_charge => row.DoD < 0

(***************************************************************************)
(* C11 as amended: the DoD of a daily row whose minimum voltage is not     *)
(* negative never exceeds 100; a day whose minimum voltage exceeds the     *)
(* full-charge voltage has a negative DoD, and avg_dod is the rounded mean *)
(* of the daily values as they are, negative ones included.                *)
(***************************************************************************)
C11_DoDAtMost100ForNonNegativeMin ==
    StatsDone =>
        /\ \A k \in 1..Len(daily_stats) :
             LET row == daily_stats[k]
             IN  row.Min # NaN =>
                   /\ row.Min >= 0 => row.DoD <= 10000
                   /\ row.Min > voltage_full_charge => row.DoD < 0
        /\ NumericDoDRows # {} =>
             Nearest(avg_dod, SumOver(DoDAt, NumericDoDRows), Cardinality(NumericDoDRows))

\* one day above the full-charge voltage, one below: the negative DoD is in the mean
C11_Witness ==
    /\ StatsDone
    /\ Len(daily_stats) = 2
    /\ daily_stats[1].Min > voltage_full_charge /\ daily_stats[1].DoD < 0
    /\ daily_stats[2].Min >= 0 /\ daily_stats[2].DoD > 0 /\ daily_stats[2].DoD <= 10000
    /\ 2 * avg_dod < daily_stats[2].DoD

(***************************************************************************)
(* Vocabulary of the state-of-health properties.                           *)
(***************************************************************************)
CurrentSeries == series_data["Current-Battery"]

\* the rows of the Current-Battery series whose timestamp lies in [t1, t2]
InRange == {k \in 1..Len(CurrentSeries) :
              /\ CurrentSeries[k].Timestamp # NaT
              /\ t1 <= CurrentSeries[k].Timestamp
              /\ CurrentSeries[k].Timestamp <= t2}

\* the SOH section has run on a document that has a Current-Battery series
SohRan ==
    /\ pc = "end"
    /\ "Current-Battery" \in DOMAIN series_data
    /\ soh # "none"

Occurrences(q, r) == Cardinality({k \in 1..Len(q) : q[k] = r})
UiItems == {ui[k] : k \in 1..Len(ui)}

\* the charge of the interval that ends at row k of the integrated frame
ChargeAt == [k \in 1..Len(integration_df) |->
               IF k = 1 THEN 0
               ELSE integration_df[k].Value
                      * (integration_df[k].Timestamp - integration_df[k - 1].Timestamp)]

(***************************************************************************)
(* C12: the SOH computation integrates exactly the Current-Battery rows    *)
(* with t1 <= t <= t2, a row at exactly t1 or exactly t2 included; when no *)
(* row is in the window a warning is shown, no SOH value or capacity is    *)
(* produced and the run ends normally.                                     *)
(***************************************************************************)
C12_InclusiveWindowOrWarning ==
    SohRan =>
        /\ outcome = "done" /\ exc = "none"
        /\ soh \in {"warning", "result"}
        /\ soh = "warning" <=> InRange = {}
        /\ soh = "result" =>
             /\ Len(integration_df) = Cardinality(InRange)
             /\ \A k \in InRange :
                  Occurrences(integration_df, CurrentSeries[k])
                    = Cardinality({j \in InRange : CurrentSeries[j] = CurrentSeries[k]})
             /\ \A k \in 1..Len(CurrentSeries) :
                  (t1 <= t2 /\ CurrentSeries[k].Timestamp \in {t1, t2})
                     => Occurrences(integration_df, CurrentSeries[k]) > 0
        /\ soh = "warning" =>
             /\ "warning: no Current-Battery data in range" \in UiItems
             /\ UiItems \cap {"metric: SOH", "gauge: SOH", "SOH explanation"} = {}
             /\ integration_df = <<>>
             /\ actual_capacity = [num |-> 0, den |-> 1]
             /\ soh_percent = [num |-> 0, den |-> 1]
             /\ pc = "end" /\ outcome = "done" /\ exc = "none"

\* The same holds of every run whose Current-Battery timestamps carry a
\* timezone: only the comparison of line 512 can fail.
InclusiveWindowWhenComparable ==
    (SohRan /\ ~TzNaive(CurrentSeries)) => C12_InclusiveWindowOrWarning

\* a row at exactly t1, a row at exactly t2 and a row outside the window
BoundaryRowsIntegrated ==
    /\ soh = "result"
    /\ Len(integration_df) = 2
    /\ integration_df[1].Timestamp = t1
    /\ integration_df[2].Timestamp = t2
    /\ Len(CurrentSeries) = 3

(***************************************************************************)
(* C13: for a non-empty window the rows are integrated in ascending        *)
(* timestamp order, the first with dt = 0 and each later one with          *)
(* dt = (t_i - t_(i-1)) / 3600 hours weighted by its own current;          *)
(* actual capacity is the absolute value of the sum and SOH is actual      *)
(* capacity / nominal capacity * 100.  So one row gives 0, SOH is never    *)
(* negative, and 5 A at t0 and t0 + 1 h with 10 Ah nominal give 5 Ah, 50 %.*)
(***************************************************************************)
C13_CoulombCounting ==
    (SohRan /\ InRange # {}) =>
        LET n == Len(integration_df)
            charge == SumOver(ChargeAt, 1..n)
        IN  /\ soh = "result"
            /\ \A k \in 1..(n - 1) :
                 integration_df[k].Timestamp <= integration_df[k + 1].Timestamp
            /\ actual_capacity.den = 3600
            /\ actual_capacity.num = Abs(charge)
            /\ soh_percent.num >= 0 /\ soh_percent.den > 0
            /\ soh_percent.num = Abs(charge) * 100
            /\ soh_percent.den = 3600 * nominal_capacity
            /\ n = 1 => soh_percent.num = 0
            /\ ( /\ n = 2 /\ nominal_capacity = 100
                 /\ integration_df[1].Value = 50 /\ integration_df[2].Value = 50
                 /\ integration_df[2].Timestamp = integration_df[1].Timestamp + 3600 )
               => /\ actual_capacity.num = 50 * actual_capacity.den
                  /\ soh_percent.num = 50 * soh_percent.den

\* The same holds of every run whose Current-Battery timestamps carry a
\* timezone.
CoulombCountingWhenComparable ==
    (SohRan /\ ~TzNaive(CurrentSeries)) => C13_CoulombCounting

\* the example: 5 A at t0 and at t0 + 1 h, 10 Ah nominal, 50 %
ExampleIntegrated ==
    /\ soh = "result"
    /\ nominal_capacity = 100
    /\ Len(integration_df) = 2
    /\ integration_df[1].Value = 50 /\ integration_df[2].Value = 50
    /\ integration_df[2].Timestamp = integration_df[1].Timestamp + 3600
    /\ soh_percent.num = 50 * soh_percent.den

(***************************************************************************)
(* C14: every permutation of the Current-Battery samples, rows   *)
(* of equal timestamp included, gives the same actual capacity and SOH.    *)
(***************************************************************************)
SameForEveryOrder ==
    \A p \in IndexPermutations(Len(CurrentSeries)) :
        \A q \in SortedOrders(Window(Permute(CurrentSeries, p), t1, t2)) :
            /\ ActualCapacity(q) = actual_capacity
            /\ SohPercent(ActualCapacity(q), nominal_capacity) = soh_percent

C14_OrderIndependent == soh = "result" => SameForEveryOrder

(***************************************************************************)
(* The order of the document matters only among windowed rows that share a *)
(* timestamp later than the first of the window and differ in current:     *)
(* without such rows every permutation gives the same capacity and SOH.    *)
(***************************************************************************)
TiesAgree ==
    \A j, k \in InRange :
        ( /\ CurrentSeries[j].Timestamp = CurrentSeries[k].Timestamp
          /\ \E m \in InRange : CurrentSeries[m].Timestamp < CurrentSeries[j].Timestamp )
        => CurrentSeries[j].Value = CurrentSeries[k].Value

OrderMattersOnlyAmongUnequalTies ==
    (soh = "result" /\ TiesAgree) => SameForEveryOrder

====
